---- MODULE Spec2Model ----
(***************************************************************************)
(* The storefront's REST handlers (routes) over the relational store      *)
(* (storage.ts, schema.ts).  Every handler is a sequence of store          *)
(* statements; each awaited statement is one atomic step of the request    *)
(* that runs it, and requests interleave between statements.               *)
(***************************************************************************)
EXTENDS Integers, Sequences, FiniteSets, TLC

VARIABLES
  users,        \* table users: user id -> row
  products,     \* table products: row id = index
  orders,       \* table orders: row id = index
  orderItems,   \* table order_items: row id = index
  adminConfig,  \* table admin_config
  tokens,       \* table password_reset_tokens (a set of rows)
  nextToken,    \* the next value the token generator yields
  now,          \* the clock, in hours
  proc          \* the requests in flight: per request slot, its handler's locals

vars == <<users, products, orders, orderItems, adminConfig, tokens, nextToken, now, proc>>

store == <<users, products, orders, orderItems, adminConfig, tokens>>

(***************************************************************************)
(* Bounds                                                                  *)
(***************************************************************************)
MaxOrders == 2      \* order headers inserted in one run
MaxLines == 2       \* order lines requested in one run
MaxTime == 2        \* clock values 0..MaxTime
MaxProducts == 3    \* rows of products
MaxTokens == 2      \* reset tokens minted in one run

Procs == {"r1", "r2"}

(***************************************************************************)
(* Nullable columns: None is SQL NULL, Some(v) a value.                    *)
(***************************************************************************)
None == <<>>
Some(v) == <<v>>
Val(x) == x[1]

RowIds(table) == 1..Len(table)

\* A product id no row has (a uuid the catalog never issued).
NoSuchProduct == 0

(***************************************************************************)
(* Request bodies the schemas accept                                       *)
(***************************************************************************)
\* insertOrderItemSchema: productId, quantity, price are the client's.
LineItems ==
  { [productId |-> 1, quantity |-> 1, price |-> 100],
    [productId |-> 1, quantity |-> 2, price |-> 100],
    [productId |-> 2, quantity |-> 1, price |-> 50],
    [productId |-> NoSuchProduct, quantity |-> 1, price |-> 100] }

SeqsUpTo(S, n) == UNION { [1..k -> S] : k \in 0..n }

\* insertOrderSchema: total and (optionally) status are the client's.
OrderBodies == { [total |-> 250, status |-> "pending"] }

\* More of what the two schemas accept: a body without status or with another
\* status, a line with a price that is not the catalog's, a line with a
\* quantity that is not positive.
AnyOrderBodies ==
  OrderBodies \cup { [total |-> 250], [total |-> 1, status |-> "delivered"] }

AnyLineItems ==
  LineItems \cup { [productId |-> 1, quantity |-> 1, price |-> 1],
                   [productId |-> 1, quantity |-> 0, price |-> 100],
                   [productId |-> 1, quantity |-> -1, price |-> 100] }

(***************************************************************************)
(* Initial store: the seeded admin, a registered user, a physical and a    *)
(* digital product, and one earlier order of the registered user.          *)
(***************************************************************************)
StockValues == 1..2

Init ==
  /\ users = ("u1" :> [email |-> "admin@x", password |-> "admin123", name |-> "A",
                        role |-> "admin"])
             @@ ("u2" :> [email |-> "bob@x", password |-> "secret1", name |-> "B",
                          role |-> "user"])
  /\ \E s \in StockValues :
       products = << [price |-> 100, type |-> "physical", stock |-> Some(s), isActive |-> TRUE],
                     [price |-> 50, type |-> "digital", stock |-> None, isActive |-> TRUE] >>
  /\ orders = << [userId |-> Some("u2"), total |-> 50, status |-> "delivered", createdAt |-> Some(0)] >>
  /\ orderItems = << [orderId |-> 1, productId |-> 2, quantity |-> 1, price |-> 50] >>
  /\ adminConfig = <<>>
  /\ tokens = {}
  /\ nextToken = 1
  /\ now = 0
  /\ proc = [p \in Procs |-> [pc |-> "idle"]]

Idle(p) == proc[p].pc \in {"idle", "done"}

Tick ==
  /\ now < MaxTime
  /\ now' = now + 1
  /\ UNCHANGED <<store, nextToken, proc>>

(***************************************************************************)
(* POST /api/orders -> storage.createOrder                                 *)
(***************************************************************************)
\* A header insert that gives the order to the registered customer.
InsertOrder_owned(table, order) ==
  Append(table, [userId |-> Some("u2"), total |-> order.total,
                 status |-> IF "status" \in DOMAIN order THEN order.status ELSE "pending",
                 createdAt |-> Some(now)])

\* The rows createOrder's header insert leaves in orders: status is the body's,
\* or the column's default when the body has none.
InsertOrder(table, order) ==
  Append(table, [userId |-> None, total |-> order.total,
                 status |-> IF "status" \in DOMAIN order THEN order.status ELSE "pending",
                 createdAt |-> Some(now)])

\* db.select().from(products).where(eq(products.id, id)) finds a row
ProductExists(id) == id \in RowIds(products)

\* An order_items table without the reference to products.
ForeignKeyHolds_unchecked(item) == TRUE

\* order_items.product_id REFERENCES products(id)
ForeignKeyHolds(item) == ProductExists(item.productId)

\* The row createOrder inserts for a line.
OrderItemRow(newOrder, item) ==
  [orderId |-> newOrder, productId |-> item.productId,
   quantity |-> item.quantity, price |-> item.price]

\* if (product.type === "physical" && product.stock !== null)
TracksStock(product) == product.type = "physical" /\ product.stock # None

\* A decrement that ignores the line's quantity.
NewStock_one(product, item) == Val(product.stock) - 1

\* .set({ stock: product.stock - item.quantity })
NewStock(product, item) == Val(product.stock) - item.quantity

\* The loop's next iteration, or the return of the order with its items.
Advance(r) ==
  IF r.i = Len(r.items)
  THEN [r EXCEPT !.pc = "done", !.res = 201]
  ELSE [r EXCEPT !.pc = "insertItem", !.i = r.i + 1]

\* The lines request slot q has still to insert.
LinesLeft(q) ==
  IF proc[q].pc = "insertItem" THEN Len(proc[q].items) - proc[q].i + 1
  ELSE IF proc[q].pc \in {"selectProduct", "updateStock"}
       THEN Len(proc[q].items) - proc[q].i
       ELSE 0

RECURSIVE LinesLeftIn(_)
LinesLeftIn(S) ==
  IF S = {} THEN 0
  ELSE LET q == CHOOSE y \in S : TRUE IN LinesLeft(q) + LinesLeftIn(S \ {q})

\* Order lines inserted or about to be, the seeded row apart.
LinesInRun == (Len(orderItems) - 1) + LinesLeftIn(Procs)

createOrder_insertOrder(p, order, items) ==
  /\ Idle(p)
  /\ Len(orders) - 1 < MaxOrders
  /\ LinesInRun + Len(items) <= MaxLines
  /\ orders' = InsertOrder(orders, order)
  /\ proc' = [proc EXCEPT ![p] =
       [op |-> "createOrder", pc |-> IF items = <<>> THEN "done" ELSE "insertItem",
        order |-> order, items |-> items, i |-> 1, newOrder |-> Len(orders) + 1,
        createdItems |-> <<>>, res |-> IF items = <<>> THEN 201 ELSE 0,
        pre |-> [orders |-> orders, orderItems |-> orderItems, products |-> products]]]
  /\ UNCHANGED <<users, products, orderItems, adminConfig, tokens, nextToken, now>>

\* A loop that goes on to the product without having inserted the line's row.
createOrder_insertItem_noRow(p) ==
  /\ proc[p].pc = "insertItem"
  /\ proc[p].op = "createOrder"
  /\ LET r == proc[p]
         item == r.items[r.i]
     IN IF ForeignKeyHolds(item)
        THEN /\ orderItems' = orderItems
             /\ proc' = [proc EXCEPT ![p] = [r EXCEPT !.pc = "selectProduct"]]
        ELSE /\ orderItems' = orderItems
             /\ proc' = [proc EXCEPT ![p] = [r EXCEPT !.pc = "done", !.res = 400]]
  /\ UNCHANGED <<users, products, orders, adminConfig, tokens, nextToken, now>>

\* The insert of the line's row into order_items.
createOrder_insertItem(p) ==
  /\ proc[p].pc = "insertItem"
  /\ proc[p].op = "createOrder"
  /\ LET r == proc[p]
         item == r.items[r.i]
     IN IF ForeignKeyHolds(item)
        THEN /\ orderItems' = Append(orderItems, OrderItemRow(r.newOrder, item))
             /\ proc' = [proc EXCEPT ![p] = [r EXCEPT !.pc = "selectProduct"]]
        ELSE \* the insert violates the foreign key: createOrder throws, the
             \* route answers 400
             /\ orderItems' = orderItems
             /\ proc' = [proc EXCEPT ![p] = [r EXCEPT !.pc = "done", !.res = 400]]
  /\ UNCHANGED <<users, products, orders, adminConfig, tokens, nextToken, now>>

createOrder_selectProduct(p) ==
  /\ proc[p].pc = "selectProduct"
  /\ proc[p].op = "createOrder"
  /\ LET r == proc[p]
         item == r.items[r.i]
     IN IF ProductExists(item.productId)
        THEN LET product == products[item.productId]
                 r2 == [r EXCEPT !.createdItems =
                          Append(@, [row |-> OrderItemRow(r.newOrder, item),
                                     product |-> product])]
             IN IF TracksStock(product)
                THEN proc' = [proc EXCEPT ![p] =
                        [pc |-> "updateStock", product |-> product] @@ r2]
                ELSE proc' = [proc EXCEPT ![p] = Advance(r2)]
        ELSE proc' = [proc EXCEPT ![p] = Advance(r)]
  /\ UNCHANGED <<store, nextToken, now>>

\* A decrement of the stock the row holds at the write (SET stock = stock - q).
createOrder_updateStock_inPlace(p) ==
  /\ proc[p].pc = "updateStock"
  /\ proc[p].op = "createOrder"
  /\ LET r == proc[p]
         item == r.items[r.i]
     IN /\ products' = [products EXCEPT ![item.productId].stock =
                          Some(NewStock(products[item.productId], item))]
        /\ proc' = [proc EXCEPT ![p] = Advance(r)]
  /\ UNCHANGED <<users, orders, orderItems, adminConfig, tokens, nextToken, now>>

\* The update of the stock, computed from the product as it was selected.
createOrder_updateStock(p) ==
  /\ proc[p].pc = "updateStock"
  /\ proc[p].op = "createOrder"
  /\ LET r == proc[p]
         item == r.items[r.i]
     IN /\ products' = [products EXCEPT ![item.productId].stock =
                          Some(NewStock(r.product, item))]
        /\ proc' = [proc EXCEPT ![p] = Advance(r)]
  /\ UNCHANGED <<users, orders, orderItems, adminConfig, tokens, nextToken, now>>

(***************************************************************************)
(* Bearer credentials.  An Authorization header is the sequence of the     *)
(* pieces it is the concatenation of: "Bearer mock_token_u1" is            *)
(* <<"Bearer ", "mock_token_", "u1">>, no header is <<>>.  A user id taken  *)
(* from a header is the sequence of the pieces left.                       *)
(***************************************************************************)
Headers ==
  { <<>>,
    <<"Basic ", "mock_token_", "u1">>,
    <<"Bearer ", "mock_token_", "u1">>,
    <<"Bearer ", "mock_token_", "u2">>,
    <<"Bearer ", "mock_token_", "u9">>,
    <<"Bearer ", "u1">>,
    <<"Bearer ", "u2">> }

\* authHeader && authHeader.startsWith(prefix)
StartsWith(h, prefix) == Len(h) >= 1 /\ h[1] = prefix

\* authHeader.substring(7)
Substring7(h) == Tail(h)

RECURSIVE Replace(_, _)
\* token.replace(piece, ""): the first occurrence goes
Replace(t, piece) ==
  IF t = <<>> THEN <<>>
  ELSE IF Head(t) = piece THEN Tail(t)
       ELSE <<Head(t)>> \o Replace(Tail(t), piece)

\* storage.getUser(id): the id of the row found, if any
getUser(id) == IF Len(id) = 1 /\ id[1] \in DOMAIN users THEN Some(id[1]) ELSE None

\* A gate without the role check.
authenticateAdmin_anyUser(h) ==
  IF ~StartsWith(h, "Bearer ") THEN "No autorizado"
  ELSE IF ~StartsWith(Substring7(h), "mock_token_") THEN "Token invalido"
  ELSE IF getUser(Replace(Substring7(h), "mock_token_")) = None
       THEN "Usuario no encontrado"
       ELSE "ok"

\* authenticateAdmin: "ok", or the message of the Error it throws
authenticateAdmin(h) ==
  IF ~StartsWith(h, "Bearer ") THEN "No autorizado"
  ELSE IF ~StartsWith(Substring7(h), "mock_token_") THEN "Token invalido"
  ELSE LET user == getUser(Replace(Substring7(h), "mock_token_"))
       IN IF user = None THEN "Usuario no encontrado"
          ELSE IF users[Val(user)].role # "admin" THEN "Acceso denegado"
          ELSE "ok"

\* The status the privileged routes' catch blocks give an Error's message.
ErrorStatus(message) ==
  IF message \in {"No autorizado", "Token invalido"} THEN 401
  ELSE IF message = "Acceso denegado" THEN 403
  ELSE 500

(***************************************************************************)
(* Reading orders with their items joined to products                      *)
(***************************************************************************)
\* A catalog listing that shows inactive products too.
getProducts_all(productsT) == RowIds(productsT)

\* storage.getProducts(): the ids of the rows where isActive is true
getProducts(productsT) == { id \in RowIds(productsT) : productsT[id].isActive }

\* storage.getProduct(id)
getProduct(productsT, id) ==
  IF id \in RowIds(productsT) THEN Some(productsT[id]) ELSE None

RECURSIVE InRowOrder(_)
\* The row ids of S in the order of the table's rows.
InRowOrder(S) ==
  IF S = {} THEN <<>>
  ELSE LET first == CHOOSE k \in S : \A j \in S : k <= j
       IN <<first>> \o InRowOrder(S \ {first})

\* The join taking an item's price from the catalog.
ItemsOf_catalogPrice(itemsT, productsT, o) ==
  LET ids == InRowOrder({ k \in RowIds(itemsT) :
                           /\ itemsT[k].orderId = o
                           /\ itemsT[k].productId \in RowIds(productsT) })
  IN [k \in 1..Len(ids) |->
        [id |-> ids[k], orderId |-> o, productId |-> itemsT[ids[k]].productId,
         quantity |-> itemsT[ids[k]].quantity,
         price |-> productsT[itemsT[ids[k]].productId].price,
         product |-> productsT[itemsT[ids[k]].productId]]]

\* from(orderItems).innerJoin(products, ...).where(eq(orderItems.orderId, o))
ItemsOf(itemsT, productsT, o) ==
  LET ids == InRowOrder({ k \in RowIds(itemsT) :
                           /\ itemsT[k].orderId = o
                           /\ itemsT[k].productId \in RowIds(productsT) })
  IN [k \in 1..Len(ids) |->
        [id |-> ids[k], orderId |-> o, productId |-> itemsT[ids[k]].productId,
         quantity |-> itemsT[ids[k]].quantity, price |-> itemsT[ids[k]].price,
         product |-> productsT[itemsT[ids[k]].productId]]]

\* { ...order, items }
WithItems(ordersT, itemsT, productsT, o) ==
  [id |-> o, userId |-> ordersT[o].userId, total |-> ordersT[o].total,
   status |-> ordersT[o].status, createdAt |-> ordersT[o].createdAt,
   items |-> ItemsOf(itemsT, productsT, o)]

\* storage.getOrder(id)
getOrder(ordersT, itemsT, productsT, id) ==
  IF id \in RowIds(ordersT) THEN Some(WithItems(ordersT, itemsT, productsT, id)) ELSE None

RECURSIVE InsertDesc(_, _, _)
\* ids with id put before the first entry that is not newer than it
InsertDesc(ordersT, ids, id) ==
  IF ids = <<>> THEN <<id>>
  ELSE IF Val(ordersT[Head(ids)].createdAt) >= Val(ordersT[id].createdAt)
       THEN <<Head(ids)>> \o InsertDesc(ordersT, Tail(ids), id)
       ELSE <<id>> \o ids

RECURSIVE OrderByDesc(_, _)
\* .orderBy(desc(orders.createdAt)) over the rows 1..n
OrderByDesc(ordersT, n) ==
  IF n = 0 THEN <<>> ELSE InsertDesc(ordersT, OrderByDesc(ordersT, n - 1), n)

\* storage.getOrders()
getOrders ==
  LET ids == OrderByDesc(orders, Len(orders))
  IN [k \in 1..Len(ids) |-> WithItems(orders, orderItems, products, ids[k])]

\* A listing that forgets the owner filter.
getUserOrders_all(userId) ==
  [k \in 1..Len(orders) |-> WithItems(orders, orderItems, products, k)]

\* storage.getUserOrders(userId)
getUserOrders(userId) ==
  LET ids == InRowOrder({ k \in RowIds(orders) :
                           Len(userId) = 1 /\ orders[k].userId = Some(userId[1]) })
  IN [k \in 1..Len(ids) |-> WithItems(orders, orderItems, products, ids[k])]

(***************************************************************************)
(* GET /api/orders                                                         *)
(***************************************************************************)
listOrders_getUser(p, h) ==
  /\ Idle(p)
  /\ LET userId == Replace(Substring7(h), "mock_token_")
     IN proc' = [proc EXCEPT ![p] =
          IF ~StartsWith(h, "Bearer ")
          THEN [op |-> "listOrders", pc |-> "done", hdr |-> h, res |-> 401]
          ELSE IF getUser(userId) = None
          THEN [op |-> "listOrders", pc |-> "done", hdr |-> h, res |-> 401]
          ELSE [op |-> "listOrders", pc |-> "select", hdr |-> h, userId |-> userId,
                user |-> users[Val(getUser(userId))]]]
  /\ UNCHANGED <<store, nextToken, now>>

listOrders_select(p) ==
  /\ proc[p].pc = "select"
  /\ proc[p].op = "listOrders"
  /\ proc' = [proc EXCEPT ![p] =
       [pc |-> "done", res |-> 200,
        out |-> IF proc[p].user.role = "admin" THEN getOrders
                 ELSE getUserOrders(proc[p].userId)] @@ proc[p]]
  /\ UNCHANGED <<store, nextToken, now>>

(***************************************************************************)
(* The privileged routes: products, order status, admin configuration      *)
(***************************************************************************)
\* Partial<InsertProduct> bodies
ProductUpdates == { [price |-> 150], [stock |-> Some(3)] }

\* InsertProduct bodies
NewProducts == { [price |-> 70, type |-> "digital", stock |-> Some(5), isActive |-> TRUE] }

\* InsertAdminConfigDB bodies
ConfigBodies == { [smtpHost |-> Some("h1")], [mpAccessToken |-> Some("k1")] }

PrivilegedRequests ==
  { [op |-> "createProduct", body |-> b] : b \in NewProducts }
  \cup { [op |-> "updateProduct", id |-> i, body |-> b] :
           i \in {1, NoSuchProduct}, b \in ProductUpdates }
  \cup { [op |-> "deleteProduct", id |-> i] : i \in {1, NoSuchProduct} }
  \cup { [op |-> "updateOrderStatus", id |-> i, status |-> "shipped"] : i \in {0, 2} }
  \cup { [op |-> "getAdminConfig"] }
  \cup { [op |-> "saveAdminConfig", body |-> b] : b \in ConfigBodies }

\* PUT /api/orders/:id/status bodies: status is z.string(), any string
StatusRequests ==
  { [op |-> "updateOrderStatus", id |-> i, status |-> st] :
      i \in {0, 1, 2}, st \in {"pending", "shipped", "refunded"} }

PrivilegedOps ==
  {"createProduct", "updateProduct", "deleteProduct", "updateOrderStatus",
   "getAdminConfig", "saveAdminConfig"}

\* .set(update): the columns the body names change
SetColumns(row, update) ==
  [c \in DOMAIN row |-> IF c \in DOMAIN update THEN update[c] ELSE row[c]]

\* await authenticateAdmin(req), and the catch block when it throws
privileged_gate(p, h, req) ==
  /\ Idle(p)
  /\ req.op = "createProduct" => Len(products) < MaxProducts
  /\ LET outcome == authenticateAdmin(h)
     IN proc' = [proc EXCEPT ![p] =
          IF outcome = "ok"
          THEN [pc |-> req.op, hdr |-> h] @@ req
          ELSE [pc |-> "done", hdr |-> h, res |-> ErrorStatus(outcome)] @@ req]
  /\ UNCHANGED <<store, nextToken, now>>

\* storage.createProduct
createProduct(p) ==
  /\ proc[p].pc = "createProduct"
  /\ products' = Append(products, proc[p].body)
  /\ proc' = [proc EXCEPT ![p] = [pc |-> "done", res |-> 201] @@ proc[p]]
  /\ UNCHANGED <<users, orders, orderItems, adminConfig, tokens, nextToken, now>>

\* storage.updateProduct
updateProduct(p) ==
  /\ proc[p].pc = "updateProduct"
  /\ IF proc[p].id \in RowIds(products)
     THEN /\ products' = [products EXCEPT ![proc[p].id] = SetColumns(@, proc[p].body)]
          /\ proc' = [proc EXCEPT ![p] = [pc |-> "done", res |-> 200] @@ proc[p]]
     ELSE /\ products' = products
          /\ proc' = [proc EXCEPT ![p] = [pc |-> "done", res |-> 404] @@ proc[p]]
  /\ UNCHANGED <<users, orders, orderItems, adminConfig, tokens, nextToken, now>>

\* storage.deleteProduct
deleteProduct(p) ==
  /\ proc[p].pc = "deleteProduct"
  /\ IF proc[p].id \in RowIds(products)
     THEN /\ products' = [products EXCEPT ![proc[p].id].isActive = FALSE]
          /\ proc' = [proc EXCEPT ![p] = [pc |-> "done", res |-> 200] @@ proc[p]]
     ELSE /\ products' = products
          /\ proc' = [proc EXCEPT ![p] = [pc |-> "done", res |-> 404] @@ proc[p]]
  /\ UNCHANGED <<users, orders, orderItems, adminConfig, tokens, nextToken, now>>

\* An update that leaves a delivered order as it is.
SetStatus_unlessDelivered(table, id, status) ==
  IF table[id].status = "delivered" THEN table
  ELSE [table EXCEPT ![id].status = status]

\* update(orders).set({ status }).where(eq(orders.id, id))
SetStatus(table, id, status) == [table EXCEPT ![id].status = status]

\* storage.updateOrderStatus
updateOrderStatus(p) ==
  /\ proc[p].pc = "updateOrderStatus"
  /\ IF proc[p].id \in RowIds(orders)
     THEN /\ orders' = SetStatus(orders, proc[p].id, proc[p].status)
          /\ proc' = [proc EXCEPT ![p] = [pc |-> "done", res |-> 200] @@ proc[p]]
     ELSE /\ orders' = orders
          /\ proc' = [proc EXCEPT ![p] = [pc |-> "done", res |-> 404] @@ proc[p]]
  /\ UNCHANGED <<users, products, orderItems, adminConfig, tokens, nextToken, now>>

\* GET /api/admin/config: storage.getAdminConfig, select ... limit 1
getAdminConfig(p) ==
  /\ proc[p].pc = "getAdminConfig"
  /\ \E config \in IF adminConfig = <<>> THEN {None}
                   ELSE { Some(adminConfig[k]) : k \in RowIds(adminConfig) } :
       proc' = [proc EXCEPT ![p] = [pc |-> "done", res |-> 200, out |-> config] @@ proc[p]]
  /\ UNCHANGED <<store, nextToken, now>>

\* A row of admin_config with every column unset.
EmptyConfig == [smtpHost |-> None, mpAccessToken |-> None, updatedAt |-> None]

\* storage.saveAdminConfig: const existingConfig = await this.getAdminConfig()
saveAdminConfig_read(p) ==
  /\ proc[p].pc = "saveAdminConfig"
  /\ \E existing \in IF adminConfig = <<>> THEN {None}
                     ELSE { Some(k) : k \in RowIds(adminConfig) } :
       proc' = [proc EXCEPT ![p] =
                  [pc |-> "saveAdminConfig_write", existingConfig |-> existing] @@ proc[p]]
  /\ UNCHANGED <<store, nextToken, now>>

\* storage.saveAdminConfig: the update of the row read, or the insert
saveAdminConfig_write(p) ==
  /\ proc[p].pc = "saveAdminConfig_write"
  /\ adminConfig' =
       IF proc[p].existingConfig # None
       THEN [adminConfig EXCEPT ![Val(proc[p].existingConfig)] =
               SetColumns(@, proc[p].body @@ [updatedAt |-> Some(now)])]
       ELSE Append(adminConfig,
                   SetColumns(EmptyConfig, proc[p].body @@ [updatedAt |-> Some(now)]))
  /\ proc' = [proc EXCEPT ![p] = [pc |-> "done", res |-> 201] @@ proc[p]]
  /\ UNCHANGED <<users, products, orders, orderItems, tokens, nextToken, now>>

(***************************************************************************)
(* POST /api/auth/register                                                 *)
(***************************************************************************)
\* The ids gen_random_uuid() gives new users, in the order it gives them.
UserIdSeq == <<"u1", "u2", "u3", "u4">>

NewUserId == UserIdSeq[Cardinality(DOMAIN users) + 1]

\* Bodies registerSchema accepts (password = confirmPassword, 6 characters or
\* more); a role in the body is not part of the schema and is dropped.
RegisterBodies ==
  { [email |-> e, password |-> "secret1", name |-> "N"] : e \in {"bob@x", "carol@x", "dave@x"} }

\* Request bodies with a role in them: registerSchema omits role, so the
\* parse drops it.
AnyRegisterBodies ==
  RegisterBodies \cup { [email |-> "eve@x", password |-> "secret1", name |-> "N",
                         role |-> "admin"] }

\* A users table whose email column is not unique.
EmailTaken_never(email) == FALSE

\* users.email is unique: an insert of a taken email fails
EmailTaken(email) == \E u \in DOMAIN users : users[u].email = email

\* storage.getUserByEmail(email): the id of the row found, if any
getUserByEmail(email) ==
  IF \E u \in DOMAIN users : users[u].email = email
  THEN Some(CHOOSE u \in DOMAIN users : users[u].email = email)
  ELSE None

register_getUserByEmail(p, body) ==
  /\ Idle(p)
  /\ Cardinality(DOMAIN users) + Cardinality({ q \in Procs : proc[q].pc = "createUser" })
       < Len(UserIdSeq)
  /\ proc' = [proc EXCEPT ![p] =
       IF getUserByEmail(body.email) # None
       THEN [op |-> "register", pc |-> "done", res |-> 400,
             message |-> "El usuario ya existe"] @@ body
       ELSE [op |-> "register", pc |-> "createUser"] @@ body]
  /\ UNCHANGED <<store, nextToken, now>>

\* An insert that takes the role from the request body when it has one.
register_createUser_bodyRole(p) ==
  /\ proc[p].pc = "createUser"
  /\ IF EmailTaken(proc[p].email)
     THEN /\ users' = users
          /\ proc' = [proc EXCEPT ![p] =
                [pc |-> "done", res |-> 400, message |-> "Datos de registro invalidos"]
                @@ proc[p]]
     ELSE /\ users' = users @@ (NewUserId :>
                [email |-> proc[p].email, password |-> proc[p].password,
                 name |-> proc[p].name,
                 role |-> IF "role" \in DOMAIN proc[p] THEN proc[p].role ELSE "user"])
          /\ proc' = [proc EXCEPT ![p] =
                [pc |-> "done", res |-> 201, user |-> NewUserId] @@ proc[p]]
  /\ UNCHANGED <<products, orders, orderItems, adminConfig, tokens, nextToken, now>>

\* storage.createUser({ email, password, name, role: "user" }), then the answer
register_createUser(p) ==
  /\ proc[p].pc = "createUser"
  /\ IF EmailTaken(proc[p].email)
     THEN \* the insert fails; the catch block answers
          /\ users' = users
          /\ proc' = [proc EXCEPT ![p] =
                [pc |-> "done", res |-> 400, message |-> "Datos de registro invalidos"]
                @@ proc[p]]
     ELSE /\ users' = users @@ (NewUserId :>
                [email |-> proc[p].email, password |-> proc[p].password,
                 name |-> proc[p].name, role |-> "user"])
          /\ proc' = [proc EXCEPT ![p] =
                [pc |-> "done", res |-> 201, user |-> NewUserId] @@ proc[p]]
  /\ UNCHANGED <<products, orders, orderItems, adminConfig, tokens, nextToken, now>>

(***************************************************************************)
(* POST /api/auth/password-recovery and POST /api/auth/reset-password      *)
(***************************************************************************)
\* 60 * 60 * 1000 ms, in hours
TokenTTL == 1

\* The length of the passwords requests carry.
PasswordLength == [pw \in {"short", "newpass1", "newpass2"} |->
                     IF pw = "short" THEN 5 ELSE 8]

\* newPassword: z.string().min(6)
MinPasswordLength == 6

ResetBodies ==
  { [token |-> t, newPassword |-> pw] : t \in 0..MaxTokens, pw \in DOMAIN PasswordLength }

RecoveryEmails == {"bob@x", "nobody@x"}

\* A delete that removes nothing.
deletePasswordRecoveryToken_none(table, token) == table

\* A delete that removes every token of the table.
deletePasswordRecoveryToken_all(table, token) == {}

\* storage.deletePasswordRecoveryToken
deletePasswordRecoveryToken(table, token) == { row \in table : row.token # token }

recovery_getUserByEmail(p, email) ==
  /\ Idle(p)
  /\ nextToken <= MaxTokens
  /\ proc' = [proc EXCEPT ![p] =
       IF getUserByEmail(email) = None
       THEN [op |-> "recovery", pc |-> "done", res |-> 404, email |-> email]
       ELSE [op |-> "recovery", pc |-> "createToken", email |-> email,
             user |-> Val(getUserByEmail(email))]]
  /\ UNCHANGED <<store, nextToken, now>>

\* the token is minted, then storage.createPasswordRecoveryToken
recovery_createToken(p) ==
  /\ proc[p].pc = "createToken"
  /\ tokens' = tokens \cup { [token |-> nextToken, userId |-> proc[p].user,
                              expiresAt |-> now + TokenTTL] }
  /\ nextToken' = nextToken + 1
  /\ proc' = [proc EXCEPT ![p] = [pc |-> "getConfig", token |-> nextToken] @@ proc[p]]
  /\ UNCHANGED <<users, products, orders, orderItems, adminConfig, now>>

\* storage.getAdminConfig(); without a mail relay the token goes to the log.
\* The column smtpHost stands for the four smtp columns the route asks for.
recovery_getConfig(p) ==
  /\ proc[p].pc = "getConfig"
  /\ \E config \in IF adminConfig = <<>> THEN {None}
                   ELSE { Some(adminConfig[k]) : k \in RowIds(adminConfig) } :
       proc' = [proc EXCEPT ![p] =
         IF config # None /\ Val(config).smtpHost # None
         THEN [pc |-> "sendMail"] @@ proc[p]
         ELSE [pc |-> "done", res |-> 200, logged |-> TRUE] @@ proc[p]]
  /\ UNCHANGED <<store, nextToken, now>>

\* A mail failure that aborts the request.
recovery_sendMail_abort(p) ==
  /\ proc[p].pc = "sendMail"
  /\ \E sent \in BOOLEAN :
       proc' = [proc EXCEPT ![p] =
                  IF sent THEN [pc |-> "done", res |-> 200, logged |-> TRUE,
                                sent |-> sent] @@ proc[p]
                  ELSE [pc |-> "done", res |-> 400, logged |-> FALSE,
                        sent |-> sent] @@ proc[p]]
  /\ UNCHANGED <<store, nextToken, now>>

\* The transporter is made and transporter.sendMail awaited: the mail goes
\* through, or one of the two throws and the token is logged; either way the
\* token is on the log and the answer is the same.
recovery_sendMail(p) ==
  /\ proc[p].pc = "sendMail"
  /\ \E sent \in BOOLEAN :
       proc' = [proc EXCEPT ![p] = [pc |-> "done", res |-> 200, logged |-> TRUE,
                                    sent |-> sent] @@ proc[p]]
  /\ UNCHANGED <<store, nextToken, now>>

\* the body is parsed, then storage.validatePasswordRecoveryToken's select
reset_validate(p, body) ==
  /\ Idle(p)
  /\ LET found == { row \in tokens : row.token = body.token }
         r == [op |-> "reset", at |-> now] @@ body
     IN proc' = [proc EXCEPT ![p] =
          IF PasswordLength[body.newPassword] < MinPasswordLength
          THEN [pc |-> "done", res |-> 400] @@ r
          ELSE IF found = {} THEN [pc |-> "done", res |-> 400] @@ r
          ELSE LET resetToken == CHOOSE row \in found : TRUE
               IN IF resetToken.expiresAt < now
                  THEN [pc |-> "deleteExpired"] @@ r
                  ELSE [pc |-> "updateUserPassword", userId |-> resetToken.userId] @@ r]
  /\ UNCHANGED <<store, nextToken, now>>

\* validatePasswordRecoveryToken: the expired token is deleted, null returned
reset_deleteExpired(p) ==
  /\ proc[p].pc = "deleteExpired"
  /\ tokens' = deletePasswordRecoveryToken(tokens, proc[p].token)
  /\ proc' = [proc EXCEPT ![p] = [pc |-> "done", res |-> 400] @@ proc[p]]
  /\ UNCHANGED <<users, products, orders, orderItems, adminConfig, nextToken, now>>

\* storage.updateUserPassword(userId, newPassword)
reset_updateUserPassword(p) ==
  /\ proc[p].pc = "updateUserPassword"
  /\ users' = [u \in DOMAIN users |->
                 IF u = proc[p].userId
                 THEN [users[u] EXCEPT !.password = proc[p].newPassword]
                 ELSE users[u]]
  /\ proc' = [proc EXCEPT ![p] = [pc |-> "deleteToken"] @@ proc[p]]
  /\ UNCHANGED <<products, orders, orderItems, adminConfig, tokens, nextToken, now>>

\* storage.deletePasswordRecoveryToken(token), then the answer
reset_deleteToken(p) ==
  /\ proc[p].pc = "deleteToken"
  /\ tokens' = deletePasswordRecoveryToken(tokens, proc[p].token)
  /\ proc' = [proc EXCEPT ![p] = [pc |-> "done", res |-> 200] @@ proc[p]]
  /\ UNCHANGED <<users, products, orders, orderItems, adminConfig, nextToken, now>>

(***************************************************************************)
(* POST /api/auth/login, GET /api/auth/me, PUT /api/auth/profile and       *)
(* PUT /api/auth/change-password                                           *)
(***************************************************************************)
\* loginSchema bodies
LoginBodies ==
  { [email |-> e, password |-> pw] :
      e \in {"bob@x", "nobody@x"}, pw \in {"secret1", "newpass1", "newpass2"} }

\* A login that looks at the email only.
loginStatus_anyPassword(usersT, email, password) ==
  IF \E u \in DOMAIN usersT : usersT[u].email = email THEN 200 ELSE 401

\* if (!user || user.password !== password) 401, else 200
loginStatus(usersT, email, password) ==
  IF \E u \in DOMAIN usersT : usersT[u].email = email /\ usersT[u].password = password
  THEN 200 ELSE 401

\* POST /api/auth/login: the answer carries the token `mock_token_${user.id}`
login(p, body) ==
  /\ Idle(p)
  /\ proc' = [proc EXCEPT ![p] =
       IF loginStatus(users, body.email, body.password) = 200
       THEN [op |-> "login", pc |-> "done", res |-> 200,
             token |-> <<"mock_token_", Val(getUserByEmail(body.email))>>] @@ body
       ELSE [op |-> "login", pc |-> "done", res |-> 401] @@ body]
  /\ UNCHANGED <<store, nextToken, now>>

\* GET /api/auth/me
me(p, h) ==
  /\ Idle(p)
  /\ LET r == [op |-> "me", pc |-> "done", hdr |-> h]
         user == getUser(Replace(Substring7(h), "mock_token_"))
     IN proc' = [proc EXCEPT ![p] =
          IF ~StartsWith(h, "Bearer ") THEN [res |-> 401] @@ r
          ELSE IF ~StartsWith(Substring7(h), "mock_token_") THEN [res |-> 401] @@ r
          ELSE IF user = None THEN [res |-> 401] @@ r
          ELSE [res |-> 200, out |-> Val(user)] @@ r]
  /\ UNCHANGED <<store, nextToken, now>>

\* Bodies the profile schema accepts: a name of 1 character or more, an email.
ProfileBodies == { [name |-> "B2", email |-> "bob2@x"] }

\* PUT /api/auth/profile.  DatabaseStorage has no updateUserProfile (IStorage
\* declares it, the class does not define it): with a Bearer header and a
\* body that parses, the call storage.updateUserProfile(...) throws and the
\* catch block answers 400.
updateProfile(p, h, body) ==
  /\ Idle(p)
  /\ LET r == [op |-> "updateProfile", pc |-> "done", hdr |-> h] @@ body
     IN proc' = [proc EXCEPT ![p] =
          IF ~StartsWith(h, "Bearer ") THEN [res |-> 401] @@ r
          ELSE [res |-> 400, userId |-> Replace(Substring7(h), "mock_token_")] @@ r]
  /\ UNCHANGED <<store, nextToken, now>>

\* Bodies of a change-password request; "" is a current password left out.
ChangeBodies ==
  { [currentPassword |-> c, newPassword |-> n] :
      c \in {"", "secret1", "newpass1"}, n \in {"short", "secret1", "newpass1"} }

\* The length of the passwords change-password requests carry.
ChangeLength == [pw \in {"", "short", "secret1", "newpass1"} |->
                   IF pw = "" THEN 0 ELSE IF pw = "short" THEN 5
                   ELSE IF pw = "secret1" THEN 7 ELSE 8]

\* A comparison that lets any current password through.
PasswordMatches_always(user, currentPassword) == TRUE

\* user.password !== currentPassword
PasswordMatches(user, currentPassword) == user.password = currentPassword

\* PUT /api/auth/change-password up to and including storage.getUser and the
\* comparison of the current password
changePassword_getUser(p, h, body) ==
  /\ Idle(p)
  /\ LET r == [op |-> "changePassword", pc |-> "done", hdr |-> h] @@ body
         userId == Replace(Substring7(h), "mock_token_")
     IN proc' = [proc EXCEPT ![p] =
          IF ~StartsWith(h, "Bearer ") THEN [res |-> 401] @@ r
          ELSE IF ~StartsWith(Substring7(h), "mock_token_") THEN [res |-> 401] @@ r
          ELSE IF ChangeLength[body.currentPassword] < 1
                  \/ ChangeLength[body.newPassword] < MinPasswordLength
               THEN [res |-> 400] @@ r
          ELSE IF getUser(userId) = None THEN [res |-> 401] @@ r
          ELSE IF ~PasswordMatches(users[Val(getUser(userId))], body.currentPassword)
               THEN [res |-> 400, userId |-> Val(getUser(userId))] @@ r
          ELSE [pc |-> "changePassword_update", userId |-> Val(getUser(userId)),
                email |-> users[Val(getUser(userId))].email] @@ r]
  /\ UNCHANGED <<store, nextToken, now>>

\* storage.updateUserPassword(userId, newPassword), then the answer
changePassword_update(p) ==
  /\ proc[p].pc = "changePassword_update"
  /\ users' = [u \in DOMAIN users |->
                 IF u = proc[p].userId
                 THEN [users[u] EXCEPT !.password = proc[p].newPassword]
                 ELSE users[u]]
  /\ proc' = [proc EXCEPT ![p] = [pc |-> "done", res |-> 200] @@ proc[p]]
  /\ UNCHANGED <<products, orders, orderItems, adminConfig, tokens, nextToken, now>>

(***************************************************************************)
(* Specifications                                                          *)
(***************************************************************************)
\* Requests processed one after another: a single request slot.
NextOrdersSeq ==
  \/ Tick
  \/ \E order \in OrderBodies, items \in SeqsUpTo(LineItems, MaxLines) :
       createOrder_insertOrder("r1", order, items)
  \/ createOrder_insertItem("r1")
  \/ createOrder_selectProduct("r1")
  \/ createOrder_updateStock("r1")

SpecOrdersSeq == Init /\ [][NextOrdersSeq]_vars

\* Two create-order requests, one per request slot, whose store statements
\* interleave.
NextOrdersConc ==
  \/ \E p \in Procs, order \in OrderBodies, items \in SeqsUpTo(LineItems, MaxLines) :
       /\ proc[p].pc = "idle"
       /\ createOrder_insertOrder(p, order, items)
  \/ \E p \in Procs : createOrder_insertItem(p)
  \/ \E p \in Procs : createOrder_selectProduct(p)
  \/ \E p \in Procs : createOrder_updateStock(p)

SpecOrdersConc == Init /\ [][NextOrdersConc]_vars

\* Orders of any accepted body, of one line at most, processed one after
\* another.
NextOrderBodies ==
  \/ \E order \in AnyOrderBodies, items \in SeqsUpTo(AnyLineItems, 1) :
       createOrder_insertOrder("r1", order, items)
  \/ createOrder_insertItem("r1")
  \/ createOrder_selectProduct("r1")
  \/ createOrder_updateStock("r1")

SpecOrderBodies == Init /\ [][NextOrderBodies]_vars

\* The credentials of the users there are: the admin's and the customer's.
CatalogHeaders == { h \in Headers : authenticateAdmin(h) \in {"ok", "Acceso denegado"} }

\* Orders (of no lines) created and their status set, requests processed one
\* after another.
NextOrderStatus ==
  \/ \E order \in AnyOrderBodies : createOrder_insertOrder("r1", order, <<>>)
  \/ \E h \in CatalogHeaders, req \in StatusRequests : privileged_gate("r1", h, req)
  \/ updateOrderStatus("r1")

SpecOrderStatus == Init /\ [][NextOrderStatus]_vars

\* The catalog and the orders that reference it, requests processed one after
\* another: order creation (of one unit, one line at most), product update
\* and delete, order status.
CatalogRequests ==
  { r \in PrivilegedRequests : r.op \in {"updateProduct", "deleteProduct", "updateOrderStatus"} }

CatalogLines == { item \in LineItems : item.quantity = 1 }

NextCatalog ==
  \/ \E order \in OrderBodies, items \in SeqsUpTo(CatalogLines, 1) :
       createOrder_insertOrder("r1", order, items)
  \/ createOrder_insertItem("r1")
  \/ createOrder_selectProduct("r1")
  \/ createOrder_updateStock("r1")
  \/ \E h \in CatalogHeaders, req \in CatalogRequests : privileged_gate("r1", h, req)
  \/ updateProduct("r1")
  \/ deleteProduct("r1")
  \/ updateOrderStatus("r1")

SpecCatalog == Init /\ [][NextCatalog]_vars

\* Orders created and listed, requests processed one after another, the clock
\* advancing between them.
NextListing ==
  \/ Tick
  \/ \E order \in OrderBodies, items \in SeqsUpTo(LineItems, 1) :
       createOrder_insertOrder("r1", order, items)
  \/ createOrder_insertItem("r1")
  \/ createOrder_selectProduct("r1")
  \/ createOrder_updateStock("r1")
  \/ \E h \in Headers : listOrders_getUser("r1", h)
  \/ listOrders_select("r1")

SpecListing == Init /\ [][NextListing]_vars

\* The privileged routes, requests processed one after another.
NextAdmin ==
  \/ \E h \in Headers, req \in PrivilegedRequests : privileged_gate("r1", h, req)
  \/ createProduct("r1")
  \/ updateProduct("r1")
  \/ deleteProduct("r1")
  \/ updateOrderStatus("r1")
  \/ getAdminConfig("r1")
  \/ saveAdminConfig_read("r1")
  \/ saveAdminConfig_write("r1")

SpecAdmin == Init /\ [][NextAdmin]_vars

\* The admin configuration read and saved by two requests at a time, whose
\* store statements interleave.
ConfigRequests == { r \in PrivilegedRequests : r.op \in {"getAdminConfig", "saveAdminConfig"} }

NextConfigConc ==
  \/ \E p \in Procs, h \in CatalogHeaders, req \in ConfigRequests : privileged_gate(p, h, req)
  \/ \E p \in Procs : getAdminConfig(p)
  \/ \E p \in Procs : saveAdminConfig_read(p)
  \/ \E p \in Procs : saveAdminConfig_write(p)

SpecConfigConc == Init /\ [][NextConfigConc]_vars

\* Password recovery and reset, requests processed one after another, the
\* clock advancing between their steps.
NextRecovery ==
  \/ Tick
  \/ \E email \in RecoveryEmails : recovery_getUserByEmail("r1", email)
  \/ recovery_createToken("r1")
  \/ recovery_getConfig("r1")
  \/ \E body \in ResetBodies : reset_validate("r1", body)
  \/ reset_deleteExpired("r1")
  \/ reset_updateUserPassword("r1")
  \/ reset_deleteToken("r1")

SpecRecovery == Init /\ [][NextRecovery]_vars

\* Password recovery with and without a mail relay: the admin configuration
\* saved and recoveries requested, requests processed one after another.
NextRecoveryMail ==
  \/ Tick
  \/ \E h \in CatalogHeaders, req \in ConfigRequests : privileged_gate("r1", h, req)
  \/ getAdminConfig("r1")
  \/ saveAdminConfig_read("r1")
  \/ saveAdminConfig_write("r1")
  \/ \E email \in RecoveryEmails : recovery_getUserByEmail("r1", email)
  \/ recovery_createToken("r1")
  \/ recovery_getConfig("r1")
  \/ recovery_sendMail("r1")

SpecRecoveryMail == Init /\ [][NextRecoveryMail]_vars

\* Password recovery and reset by two requests at a time, whose store
\* statements interleave.
NextResetConc ==
  \/ Tick
  \/ \E p \in Procs, email \in RecoveryEmails : recovery_getUserByEmail(p, email)
  \/ \E p \in Procs : recovery_createToken(p)
  \/ \E p \in Procs : recovery_getConfig(p)
  \/ \E p \in Procs, body \in ResetBodies : reset_validate(p, body)
  \/ \E p \in Procs : reset_deleteExpired(p)
  \/ \E p \in Procs : reset_updateUserPassword(p)
  \/ \E p \in Procs : reset_deleteToken(p)

SpecResetConc == Init /\ [][NextResetConc]_vars

\* The routes of a user's account, requests processed one after another:
\* login, identity, profile, change of password.
AccountHeaders == Headers

NextAccount ==
  \/ \E body \in LoginBodies : login("r1", body)
  \/ \E h \in AccountHeaders : me("r1", h)
  \/ \E h \in AccountHeaders, body \in ProfileBodies : updateProfile("r1", h, body)
  \/ \E h \in AccountHeaders, body \in ChangeBodies : changePassword_getUser("r1", h, body)
  \/ changePassword_update("r1")
  \/ \E h \in AccountHeaders : listOrders_getUser("r1", h)
  \/ listOrders_select("r1")

SpecAccount == Init /\ [][NextAccount]_vars

\* Every route that writes to users, requests processed one after another:
\* registration, login, profile, change of password, recovery and reset,
\* with the credentials of the two users and one that names no user.
UsersHeaders == CatalogHeaders \cup { h \in Headers : authenticateAdmin(h) = "Usuario no encontrado" }

NextUsers ==
  \/ \E body \in AnyRegisterBodies : register_getUserByEmail("r1", body)
  \/ register_createUser("r1")
  \/ \E body \in LoginBodies : login("r1", body)
  \/ \E h \in UsersHeaders, body \in ProfileBodies : updateProfile("r1", h, body)
  \/ \E h \in UsersHeaders, body \in ChangeBodies : changePassword_getUser("r1", h, body)
  \/ changePassword_update("r1")
  \/ \E email \in RecoveryEmails : recovery_getUserByEmail("r1", email)
  \/ recovery_createToken("r1")
  \/ recovery_getConfig("r1")
  \/ \E body \in ResetBodies : reset_validate("r1", body)
  \/ reset_updateUserPassword("r1")
  \/ reset_deleteToken("r1")

SpecUsers == Init /\ [][NextUsers]_vars

\* Registrations, two at a time, whose store statements interleave.
NextRegister ==
  \/ \E p \in Procs, body \in RegisterBodies : register_getUserByEmail(p, body)
  \/ \E p \in Procs : register_createUser(p)

SpecRegister == Init /\ [][NextRegister]_vars

(***************************************************************************)
(* Properties of order creation                                            *)
(***************************************************************************)
\* A create-order request that has returned.
CreateOrderDone(p) == proc[p].pc = "done" /\ proc[p].op = "createOrder"

\* The order_items rows of order o.
ItemRowsOf(o) == { k \in RowIds(orderItems) : orderItems[k].orderId = o }

RECURSIVE Requested(_, _)
\* The quantity a request's lines ask of product id.
Requested(items, id) ==
  IF items = <<>> THEN 0
  ELSE (IF Head(items).productId = id THEN Head(items).quantity ELSE 0)
       + Requested(Tail(items), id)

AllResolvable(items, catalog) ==
  \A k \in 1..Len(items) : items[k].productId \in RowIds(catalog)

SufficientStock(items, catalog) ==
  \A id \in RowIds(catalog) :
    TracksStock(catalog[id]) => Requested(items, id) <= Val(catalog[id].stock)

\* C1: a create-order request of N lines that all reference existing products
\* with sufficient stock, run on its own, returns 201 with N items, persists
\* exactly N item rows for the new order, and lowers the stock of every
\* stock-tracking product by exactly the quantity requested of it.
C1_AllLinesPersisted ==
  \A p \in Procs :
    (/\ CreateOrderDone(p)
     /\ AllResolvable(proc[p].items, proc[p].pre.products)
     /\ SufficientStock(proc[p].items, proc[p].pre.products))
    => /\ proc[p].res = 201
       /\ Len(proc[p].createdItems) = Len(proc[p].items)
       /\ Cardinality(ItemRowsOf(proc[p].newOrder)) = Len(proc[p].items)
       /\ \A k \in 1..Len(proc[p].items) :
            proc[p].createdItems[k].row = OrderItemRow(proc[p].newOrder, proc[p].items[k])
       /\ \A id \in RowIds(proc[p].pre.products) :
            TracksStock(proc[p].pre.products[id])
            => products[id].stock =
                 Some(Val(proc[p].pre.products[id].stock) - Requested(proc[p].items, id))

\* C1 witness: a request of two lines that both resolve has returned, having
\* asked two units or more of the physical product out of a stock that covers
\* them.
C1_Witness ==
  \E p \in Procs :
    /\ CreateOrderDone(p)
    /\ Len(proc[p].items) = 2
    /\ AllResolvable(proc[p].items, proc[p].pre.products)
    /\ SufficientStock(proc[p].items, proc[p].pre.products)
    /\ Requested(proc[p].items, 1) >= 2

HasBadLine(items) == \E k \in 1..Len(items) : items[k].productId = NoSuchProduct

\* C2: a create-order request with a line whose product id does not exist
\* fails and leaves orders, order items and products as they were before it.
C2_BadLineFailsAtomically ==
  \A p \in Procs :
    (CreateOrderDone(p) /\ HasBadLine(proc[p].items))
    => /\ proc[p].res # 201
       /\ orders = proc[p].pre.orders
       /\ orderItems = proc[p].pre.orderItems
       /\ products = proc[p].pre.products

OneUnitOfProduct1 == << [productId |-> 1, quantity |-> 1, price |-> 100] >>

\* Both request slots hold a create-order call for one unit of product 1, and
\* the first of them found the stock at 1.
LastUnitRace ==
  /\ \A p \in Procs : proc[p].pc # "idle" /\ proc[p].items = OneUnitOfProduct1
  /\ \E p \in Procs : /\ proc[p].pre.products[1].stock = Some(1)
                        /\ proc[p].pre.orders = <<orders[1]>>

\* C3: of two create-order calls that each ask one unit of a physical product
\* whose stock is 1, exactly one succeeds, and the stock is never negative.
C3_LastUnitSoldOnce ==
  LastUnitRace
  => /\ Val(products[1].stock) >= 0
     /\ (\A p \in Procs : CreateOrderDone(p))
        => Cardinality({ p \in Procs : proc[p].res = 201 }) = 1

\* C4: when a store write of the create-order sequence fails partway, the
\* order it leaves has as many item rows as lines were requested, and stock
\* has gone down by no more than the item rows it persisted account for.
C4_NoPartialOrder ==
  \A p \in Procs :
    (CreateOrderDone(p) /\ proc[p].res = 400)
    => /\ proc[p].newOrder \in RowIds(orders)
          => Cardinality(ItemRowsOf(proc[p].newOrder)) = Len(proc[p].items)
       /\ \A id \in RowIds(proc[p].pre.products) :
            TracksStock(proc[p].pre.products[id])
            => Val(proc[p].pre.products[id].stock) - Val(products[id].stock)
                 <= Requested([k \in 1..Cardinality(ItemRowsOf(proc[p].newOrder))
                                |-> proc[p].items[k]], id)

\* C5: stock, when present, is never negative: a request asking more of a
\* product than its stock is rejected and leaves stock as it was.
C5_StockGuarded ==
  /\ \A id \in RowIds(products) :
       products[id].stock = None \/ Val(products[id].stock) >= 0
  /\ \A p \in Procs :
       (/\ CreateOrderDone(p)
        /\ AllResolvable(proc[p].items, proc[p].pre.products)
        /\ ~SufficientStock(proc[p].items, proc[p].pre.products))
       => proc[p].res # 201 /\ products = proc[p].pre.products

(***************************************************************************)
(* Properties of the catalog, the listing and the gate                     *)
(***************************************************************************)
\* C6: the price of a recorded order item never changes: whatever step is
\* taken (a product's price updated, a product deleted, an order's status set,
\* another order created), fetching an order afterwards returns each item it
\* returned before, with the same price.
C6_ItemPriceFrozen ==
  [][\A o \in RowIds(orders) :
       LET before == Val(getOrder(orders, orderItems, products, o)).items
           after == Val(getOrder(orders', orderItems', products', o)).items
       IN \A k \in 1..Len(before) :
            /\ k <= Len(after)
            /\ after[k].id = before[k].id
            /\ after[k].price = before[k].price]_vars

\* C6 witness: an order created at price 100 for product 1, whose catalog price
\* has since been set to 150, is fetched with its item still at 100.
C6_Witness ==
  \E o \in RowIds(orders) :
    /\ o > 1
    /\ products[1].price = 150
    /\ LET items == Val(getOrder(orders, orderItems, products, o)).items
       IN items # <<>> /\ items[1].productId = 1 /\ items[1].price = 100

ListOrdersDone(p) ==
  proc[p].pc = "done" /\ proc[p].op = "listOrders" /\ proc[p].res = 200

\* C8: the order listing answers a non-admin caller with orders owned by that
\* caller only, and an admin with every order of the store, newest first.
C8_ListingScoped ==
  \A p \in Procs :
    ListOrdersDone(p)
    => LET out == proc[p].out
       IN IF proc[p].user.role = "admin"
          THEN /\ { out[k].id : k \in 1..Len(out) } = RowIds(orders)
               /\ Len(out) = Len(orders)
               /\ \A j, k \in 1..Len(out) :
                    j < k => Val(out[j].createdAt) >= Val(out[k].createdAt)
          ELSE \A k \in 1..Len(out) :
                 /\ out[k].userId # None
                 /\ <<Val(out[k].userId)>> = proc[p].userId
                 /\ users[Val(out[k].userId)] = proc[p].user

\* C8 witness: a non-admin caller has been answered with an order of their own
\* while the store also holds an order owned by nobody.
C8_Witness ==
  \E p \in Procs :
    /\ ListOrdersDone(p)
    /\ proc[p].user.role # "admin"
    /\ proc[p].out # <<>>
    /\ \E o \in RowIds(orders) : orders[o].userId = None

\* A bearer credential that resolves to an existing user whose role is admin.
AdminCredential(h) ==
  \E u \in DOMAIN users : users[u].role = "admin" /\ h = <<"Bearer ", "mock_token_", u>>

TokenRows(table, t) == { row \in table : row.token = t }

\* What a step of a reset request does, by the state of the token presented.
ResetStep(p) ==
  LET r == proc'[p]
      rows == TokenRows(tokens, r.token)
      wellFormed == PasswordLength[r.newPassword] >= MinPasswordLength
  IN /\ (Idle(p) /\ rows = {})
        => r.pc = "done" /\ r.res = 400 /\ store' = store
     /\ (Idle(p) /\ wellFormed /\ \E row \in rows : row.expiresAt < now)
        => r.pc = "deleteExpired" /\ store' = store
     /\ proc[p].pc = "deleteExpired"
        => /\ r.pc = "done" /\ r.res = 400
           /\ users' = users
           /\ TokenRows(tokens', r.token) = {}
     /\ (Idle(p) /\ wellFormed /\ \E row \in rows : row.expiresAt >= now)
        => /\ r.pc = "updateUserPassword"
           /\ \E row \in rows : r.userId = row.userId
           /\ store' = store
     /\ (r.pc = "done" /\ r.res = 200)
        => /\ TokenRows(tokens', r.token) = {}
           /\ users'[r.userId].password = r.newPassword
           /\ \A u \in DOMAIN users \ {r.userId} : users'[u] = users[u]
     /\ users' # users
        => /\ \E row \in rows : row.userId = r.userId /\ row.expiresAt >= proc[p].at
           /\ users' = [users EXCEPT ![r.userId].password = r.newPassword]

\* C7: requests processed one after another, a reset token is single use. A
\* reset with a token that has no row is answered 400 and changes nothing; one
\* with an expired token is answered 400 and its row removed, the credentials
\* untouched; one with an unexpired token sets the owner's password and
\* removes the row; and a token that was minted and has no row any more never
\* has one again, so every later reset presenting it is of the first kind.
C7_TokenSingleUse ==
  [][/\ \A p \in Procs :
          (proc'[p] # proc[p] /\ proc'[p].op = "reset") => ResetStep(p)
     /\ \A t \in 1..(nextToken - 1) :
          TokenRows(tokens, t) = {} => TokenRows(tokens', t) = {}]_vars

\* C7 witness: the one token minted was used to set a password, then presented
\* again with another password, and that second reset was refused.
C7_Witness ==
  \E p \in Procs :
    /\ proc[p].pc = "done" /\ proc[p].op = "reset" /\ proc[p].res = 400
    /\ nextToken = 2
    /\ proc[p].token = 1
    /\ proc[p].newPassword = "newpass2"
    /\ users["u2"].password = "newpass1"
    /\ now <= TokenTTL

\* C9: no two users ever share an email. A registration whose email belongs
\* to a user, at its lookup or at its insert, is answered 400 and adds no row
\* (at the lookup, as "El usuario ya existe"); one whose email is free at
\* both adds exactly one row, with that email and role "user", and is
\* answered 201.
C9_EmailUnique ==
  /\ [](\A u, v \in DOMAIN users : users[u].email = users[v].email => u = v)
  /\ [][\A p \in Procs :
          (proc'[p] # proc[p] /\ proc'[p].op = "register")
          => LET r == proc'[p]
                 taken == \E u \in DOMAIN users : users[u].email = r.email
             IN /\ taken => /\ users' = users
                            /\ r.pc = "done" /\ r.res = 400
                            /\ Idle(p) => r.message = "El usuario ya existe"
                /\ (~taken /\ Idle(p)) => r.pc = "createUser" /\ users' = users
                /\ (~taken /\ ~Idle(p))
                   => /\ r.pc = "done" /\ r.res = 201
                      /\ r.user \notin DOMAIN users
                      /\ DOMAIN users' = DOMAIN users \cup {r.user}
                      /\ \A u \in DOMAIN users : users'[u] = users[u]
                      /\ users'[r.user].email = r.email
                      /\ users'[r.user].role = "user"]_vars

\* C9 witness: two registrations with the same new email overlapped; one was
\* answered 201, the other 400 at its insert.
C9_Witness ==
  /\ \A p \in Procs : proc[p].pc = "done" /\ proc[p].op = "register"
  /\ proc["r1"].email = proc["r2"].email
  /\ \E p \in Procs : proc[p].res = 201
  /\ \E p \in Procs : proc[p].res = 400 /\ proc[p].message = "Datos de registro invalidos"

(***************************************************************************)
(* Properties of the gate's answers                                        *)
(***************************************************************************)
\* A privileged request that has been answered.
PrivilegedDone(p) == proc[p].pc = "done" /\ proc[p].op \in PrivilegedOps

\* A bearer credential of the form the gate expects, whatever id it carries.
WellFormed(h) == StartsWith(h, "Bearer ") /\ StartsWith(Substring7(h), "mock_token_")

\* C11: a privileged request with a missing or malformed bearer credential is
\* answered 401; one with a well-formed credential that resolves to no user is
\* answered 401; one whose credential resolves to a user who is not an admin
\* is answered 403.
C11_GateStatus ==
  \A p \in Procs :
    PrivilegedDone(p)
    => LET h == proc[p].hdr
           user == getUser(Replace(Substring7(h), "mock_token_"))
       IN /\ ~WellFormed(h) => proc[p].res = 401
          /\ (WellFormed(h) /\ user = None) => proc[p].res = 401
          /\ (WellFormed(h) /\ user # None /\ users[Val(user)].role # "admin")
             => proc[p].res = 403

(***************************************************************************)
(* Properties of the rows create-order writes                              *)
(***************************************************************************)
\* C12: the order row a create-order request inserts has status "pending",
\* whatever the request body carries, and the total the body carries.
C12_CreatedPending ==
  [][\A p \in Procs :
       (Idle(p) /\ proc'[p] # proc[p] /\ proc'[p].op = "createOrder")
       => /\ Len(orders') = Len(orders) + 1
          /\ orders'[Len(orders')].status = "pending"
          /\ orders'[Len(orders')].total = proc'[p].order.total]_vars

\* C13: the price of the item row create-order inserts for a line is the
\* price the catalog holds for the line's product at that moment.
C13_ItemPriceFromCatalog ==
  [][Len(orderItems') = Len(orderItems) + 1
     => LET row == orderItems'[Len(orderItems')]
        IN row.price = products[row.productId].price]_vars

\* C14: update-order-status on the id of an order sets that order's status to
\* the string given, whatever the string and whatever the status was, leaves
\* every other field of the order, every other order and every other table as
\* they were, and is answered 200; on an id no order has it is answered 404
\* and leaves the store unchanged.
C14_StatusReplaced ==
  [][\A p \in Procs :
       (proc[p].pc = "updateOrderStatus" /\ proc'[p] # proc[p])
       => LET r == proc[p]
          IN IF r.id \in RowIds(orders)
             THEN /\ proc'[p].pc = "done" /\ proc'[p].res = 200
                  /\ Len(orders') = Len(orders)
                  /\ orders'[r.id].status = r.status
                  /\ \A c \in DOMAIN orders[r.id] \ {"status"} :
                       orders'[r.id][c] = orders[r.id][c]
                  /\ \A o \in RowIds(orders) \ {r.id} : orders'[o] = orders[o]
                  /\ <<users', products', orderItems', adminConfig', tokens'>>
                       = <<users, products, orderItems, adminConfig, tokens>>
             ELSE /\ proc'[p].pc = "done" /\ proc'[p].res = 404
                  /\ store' = store]_vars

\* C14 witness: the seeded order, which was delivered, has been set back to
\* pending by an admin's request, and an order created since has been given a
\* status outside the four the schema's comment lists.
C14_Witness ==
  \E p \in Procs :
    /\ proc[p].pc = "done" /\ proc[p].op = "updateOrderStatus" /\ proc[p].res = 200
    /\ proc[p].id = 1
    /\ orders[1].status = "pending"
    /\ \E o \in RowIds(orders) : orders[o].status = "refunded"

(***************************************************************************)
(* Properties of the admin configuration                                   *)
(***************************************************************************)
\* C15: the admin configuration is a singleton: admin_config never holds more
\* than one row, however the saves of concurrent requests interleave, and a
\* save made when a row exists adds no row.
C15_ConfigSingleton ==
  /\ [](Len(adminConfig) <= 1)
  /\ [][adminConfig # <<>> => Len(adminConfig') = Len(adminConfig)]_vars

(***************************************************************************)
(* Properties of password recovery                                         *)
(***************************************************************************)
\* C16: a recovery request for an email no user has is answered 404 and adds
\* no token. One for the email of a user adds one new token row, owned by
\* that user and expiring one hour after its creation, and from then on the
\* request can only end answered 200 with the row still there and the token
\* on the log: with no mail relay configured, with the mail sent, and with
\* the mail failed alike.
C16_TokenPersisted ==
  [][\A p \in Procs :
       (proc'[p] # proc[p] /\ proc'[p].op = "recovery")
       => LET r == proc'[p]
              owners == { u \in DOMAIN users : users[u].email = r.email }
          IN /\ (Idle(p) /\ owners = {})
                => r.pc = "done" /\ r.res = 404 /\ store' = store
             /\ (Idle(p) /\ owners # {})
                => r.pc = "createToken" /\ r.user \in owners /\ store' = store
             /\ proc[p].pc = "createToken"
                => /\ TokenRows(tokens, r.token) = {}
                   /\ tokens' = tokens \cup { [token |-> r.token, userId |-> r.user,
                                                expiresAt |-> now + 1] }
                   /\ r.user \in owners
                   /\ r.pc # "done"
             /\ (~Idle(p) /\ proc[p].pc # "createToken")
                => /\ store' = store
                   /\ TokenRows(tokens', r.token) # {}
                   /\ r.pc = "done" => r.res = 200 /\ r.logged]_vars

\* C16 witness: with a mail relay configured, a recovery request whose mail
\* failed has been answered 200, its token in the table.
C16_Witness ==
  \E p \in Procs :
    /\ proc[p].pc = "done" /\ proc[p].op = "recovery" /\ proc[p].res = 200
    /\ "sent" \in DOMAIN proc[p] /\ ~proc[p].sent
    /\ adminConfig # <<>>
    /\ \E row \in tokens : row.token = proc[p].token /\ row.userId = "u2"

\* A reset request that has been answered 200: it set the password.
ResetSucceeded(p) == proc[p].pc = "done" /\ proc[p].op = "reset" /\ proc[p].res = 200

\* C17: of two reset requests that present the same token and whose steps
\* interleave, at most one sets the password; the other is answered 400.
C17_OneResetPerToken ==
  \A p, q \in Procs :
    (p # q /\ ResetSucceeded(p) /\ proc[q].pc # "idle" /\ proc[q].op = "reset"
     /\ proc[q].token = proc[p].token)
    => /\ proc[q].pc \notin {"updateUserPassword", "deleteToken"}
       /\ proc[q].pc = "done" => proc[q].res = 400

(***************************************************************************)
(* Properties of concurrent order creation                                 *)
(***************************************************************************)
\* The two calls of the race for the last unit have both returned, and each
\* had selected the product with stock 1: both read before either wrote.
BothReadOne ==
  /\ LastUnitRace
  /\ \A p \in Procs : /\ CreateOrderDone(p)
                      /\ "product" \in DOMAIN proc[p]
                      /\ proc[p].product.stock = Some(1)

\* C18, as the claim states it: when two concurrent create-order calls for
\* one unit each of a product whose stock is 1 both read stock 1 before
\* either writes, the stock after both have finished is negative.
C18_BothReadThenNegative ==
  BothReadOne => Val(products[1].stock) < 0

\* C18, amended: in that interleaving both calls succeed, each writes the
\* stock it computed from the 1 it read, and the stock after both have
\* finished is 0 with two units sold: one decrement is lost, and the stock is
\* not negative.
C18_BothReadLosesUpdate ==
  BothReadOne
  => /\ products[1].stock = Some(0)
     /\ \A p \in Procs : proc[p].res = 201
     /\ Cardinality({ k \in RowIds(orderItems) : k > 1 /\ orderItems[k].productId = 1 }) = 2

\* C18 witness: the race has run to its end with both calls having read 1.
C18_Witness ==
  /\ BothReadOne
  /\ \A p \in Procs : Len(proc[p].createdItems) = 1

(***************************************************************************)
(* Properties of a create-order request with an unresolvable line          *)
(***************************************************************************)
\* The lines of a request that reference a product of the catalog.
RECURSIVE Resolvable(_, _)
Resolvable(items, catalog) ==
  IF items = <<>> THEN <<>>
  ELSE (IF Head(items).productId \in RowIds(catalog) THEN <<Head(items)>> ELSE <<>>)
       \o Resolvable(Tail(items), catalog)

\* The lines of a request that come before its first unresolvable line.
RECURSIVE BeforeBadLine(_, _)
BeforeBadLine(items, catalog) ==
  IF items = <<>> \/ Head(items).productId \notin RowIds(catalog) THEN <<>>
  ELSE <<Head(items)>> \o BeforeBadLine(Tail(items), catalog)

\* A request that mixes resolvable lines with an unresolvable one has returned.
MixedRequestDone(p) ==
  /\ CreateOrderDone(p)
  /\ HasBadLine(proc[p].items)
  /\ Resolvable(proc[p].items, proc[p].pre.products) # <<>>

\* What a returned request has left in the store, were lines its lines.
Persisted(p, lines) ==
  /\ LET ids == InRowOrder(ItemRowsOf(proc[p].newOrder))
     IN /\ Len(ids) = Len(lines)
        /\ \A k \in 1..Len(ids) :
             orderItems[ids[k]] = OrderItemRow(proc[p].newOrder, lines[k])
  /\ Len(proc[p].createdItems) = Len(lines)
  /\ \A k \in 1..Len(proc[p].createdItems) :
       proc[p].createdItems[k].row = OrderItemRow(proc[p].newOrder, lines[k])
  /\ \A id \in RowIds(proc[p].pre.products) :
       TracksStock(proc[p].pre.products[id])
       => products[id].stock =
            Some(Val(proc[p].pre.products[id].stock) - Requested(lines, id))

\* C19, as the claim states it: a request that mixes resolvable lines with a
\* line for a product that does not exist succeeds, returns and persists
\* exactly its resolvable lines, and lowers their stock as usual.
C19_BadLineDropped ==
  \A p \in Procs :
    MixedRequestDone(p)
    => /\ proc[p].res = 201
       /\ Persisted(p, Resolvable(proc[p].items, proc[p].pre.products))

\* C19, amended: such a request, run on its own, is answered 400: the insert
\* of the unresolvable line violates the reference to products and ends the
\* call. The order header and the lines before the unresolvable one stay
\* persisted, their stock lowered; the lines after it are not processed.
C19_BadLineAborts ==
  \A p \in Procs :
    MixedRequestDone(p)
    => /\ proc[p].res = 400
       /\ proc[p].newOrder \in RowIds(orders)
       /\ Persisted(p, BeforeBadLine(proc[p].items, proc[p].pre.products))

\* C19 witness: a request of a resolvable line for the physical product
\* followed by an unresolvable line has returned.
C19_Witness ==
  \E p \in Procs :
    /\ MixedRequestDone(p)
    /\ proc[p].items[1].productId = 1
    /\ proc[p].items[2].productId = NoSuchProduct
    /\ Cardinality(ItemRowsOf(proc[p].newOrder)) = 1

(***************************************************************************)
(* Properties of stock and the product's type                              *)
(***************************************************************************)
\* A step of create-order changes no product that is not physical or has no
\* stock, and of the others nothing but the stock.
CreateOrderStockOnly ==
  \A p \in Procs :
    (proc'[p] # proc[p] /\ proc'[p].op = "createOrder")
    => /\ Len(products') = Len(products)
       /\ \A id \in RowIds(products) :
            /\ ~TracksStock(products[id]) => products'[id] = products[id]
            /\ \A c \in DOMAIN products[id] \ {"stock"} :
                 products'[id][c] = products[id][c]

CreateOrderFrame == [][CreateOrderStockOnly]_vars

\* C20: create-order never changes the stock of a product that is not
\* physical or has no stock, and never changes another field of a product;
\* and in every reachable state a digital product has no stock value.
C20_StockOnlyPhysical ==
  /\ [](\A id \in RowIds(products) :
          products[id].type # "physical" => products[id].stock = None)
  /\ CreateOrderFrame

(***************************************************************************)
(* Properties of the quantity of a line                                    *)
(***************************************************************************)
\* C21: every order item row has a quantity of 1 or more: a create-order
\* request with a line whose quantity is 0 or negative is rejected, and no
\* step of create-order raises a product's stock.
C21_QuantityPositive ==
  /\ [](\A k \in RowIds(orderItems) : orderItems[k].quantity >= 1)
  /\ [](\A p \in Procs :
          (CreateOrderDone(p)
           /\ \E k \in 1..Len(proc[p].items) : proc[p].items[k].quantity < 1)
          => proc[p].res # 201)
  /\ [][\A id \in RowIds(products) :
          (products[id].stock # None /\ products'[id].stock # None
           /\ \E p \in Procs : proc'[p] # proc[p] /\ proc'[p].op = "createOrder")
          => Val(products'[id].stock) <= Val(products[id].stock)]_vars

(***************************************************************************)
(* Properties of deleting a product                                        *)
(***************************************************************************)
\* C22: deleting a product that exists clears its active flag and nothing
\* else: the row and its other fields stay, and so does every other row.
\* After it the product is not in the catalog listing, is still found by its
\* id, and is still joined to the items of the orders that reference it. No
\* step of any request removes a product row.
C22_SoftDelete ==
  [][/\ \A id \in RowIds(products) : id \in RowIds(products')
     /\ \A p \in Procs :
          (proc[p].pc = "deleteProduct" /\ proc'[p] # proc[p]
           /\ proc[p].id \in RowIds(products))
          => LET id == proc[p].id
             IN /\ proc'[p].res = 200
                /\ Len(products') = Len(products)
                /\ ~products'[id].isActive
                /\ \A c \in DOMAIN products[id] \ {"isActive"} :
                     products'[id][c] = products[id][c]
                /\ \A other \in RowIds(products) \ {id} : products'[other] = products[other]
                /\ id \notin getProducts(products')
                /\ getProduct(products', id) = Some(products'[id])
                /\ <<orders', orderItems'>> = <<orders, orderItems>>
                /\ \A o \in RowIds(orders) :
                     LET before == Val(getOrder(orders, orderItems, products, o)).items
                         after == Val(getOrder(orders', orderItems', products', o)).items
                     IN /\ Len(after) = Len(before)
                        /\ \A k \in 1..Len(before) :
                             /\ after[k].id = before[k].id
                             /\ after[k].productId = before[k].productId
                             /\ after[k].productId = id => ~after[k].product.isActive]_vars

\* C22 witness: the physical product has been deleted by an admin after an
\* order was created for it; it is out of the listing and the order still
\* shows its item, joined to the product.
C22_Witness ==
  \E p \in Procs :
    /\ proc[p].pc = "done" /\ proc[p].op = "deleteProduct" /\ proc[p].res = 200
    /\ 1 \notin getProducts(products)
    /\ getProduct(products, 1) # None
    /\ \E o \in RowIds(orders) :
         LET items == Val(getOrder(orders, orderItems, products, o)).items
         IN items # <<>> /\ items[1].productId = 1 /\ ~items[1].product.isActive

(***************************************************************************)
(* Properties of the account routes                                        *)
(***************************************************************************)
\* The user a bearer credential of the form mock_token_<user id> names.
CredentialOf(h) == { u \in DOMAIN users : h = <<"Bearer ", "mock_token_", u>> }

\* C23: a profile-update request whose credential resolves to a user, with a
\* valid name and email, is answered 200 and leaves that user with the name
\* and the email given, the user's role and password as they were; and no
\* step removes a user.
C23_ProfileUpdated ==
  /\ [](\A p \in Procs :
          (proc[p].pc = "done" /\ proc[p].op = "updateProfile"
           /\ CredentialOf(proc[p].hdr) # {})
          => /\ proc[p].res = 200
             /\ \A u \in CredentialOf(proc[p].hdr) :
                  users[u].name = proc[p].name /\ users[u].email = proc[p].email)
  /\ [][/\ DOMAIN users \subseteq DOMAIN users'
        /\ \A p \in Procs :
             (proc'[p] # proc[p] /\ proc'[p].op = "updateProfile")
             => \A u \in DOMAIN users :
                  /\ users'[u].role = users[u].role
                  /\ users'[u].password = users[u].password]_vars

(***************************************************************************)
(* Properties of a user's outstanding reset tokens                         *)
(***************************************************************************)
\* C24: a user may hold several reset tokens. A recovery request removes no
\* token; a reset removes no token but the one presented; and a reset that
\* presents a token whose row is there and unexpired is accepted whatever
\* other tokens of the user were used before, then removes that token alone.
C24_TokensIndependent ==
  [][\A p \in Procs :
       proc'[p] # proc[p]
       => /\ proc'[p].op = "recovery"
             => /\ tokens \subseteq tokens'
                /\ proc[p].pc = "createToken"
                   => Cardinality(tokens') = Cardinality(tokens) + 1
          /\ proc'[p].op = "reset"
             => /\ { row \in tokens : row.token # proc'[p].token } =
                     { row \in tokens' : row.token # proc'[p].token }
                /\ (/\ Idle(p)
                    /\ PasswordLength[proc'[p].newPassword] >= MinPasswordLength
                    /\ \E row \in TokenRows(tokens, proc'[p].token) : row.expiresAt >= now)
                   => proc'[p].pc = "updateUserPassword"
                /\ proc[p].pc = "deleteToken"
                   => proc'[p].res = 200 /\ TokenRows(tokens', proc'[p].token) = {}]_vars

\* C24 witness: two tokens were minted for the user and neither has expired;
\* a reset with one of them succeeded, and then a reset with the other did.
C24_Witness ==
  \E p \in Procs :
    /\ proc[p].pc = "done" /\ proc[p].op = "reset" /\ proc[p].res = 200
    /\ nextToken = 3
    /\ tokens = {}
    /\ now <= TokenTTL

\* The protected routes that ask for no role.
ProtectedOps == {"me", "listOrders", "updateProfile", "changePassword"}

\* C25: each protected route that asks for no role answers 401, touching
\* nothing of the store, a request whose bearer value is missing, is not of
\* the form mock_token_<user id>, or names no user; it accepts a bearer value
\* in that form only.
C25_ProtectedNeedsCredential ==
  /\ [](\A p \in Procs :
          (proc[p].pc # "idle" /\ proc[p].op \in ProtectedOps
           /\ CredentialOf(proc[p].hdr) = {})
          => proc[p].pc = "done" /\ proc[p].res = 401)
  /\ [][\A p \in Procs :
          (proc'[p] # proc[p] /\ proc'[p].op \in ProtectedOps
           /\ CredentialOf(proc'[p].hdr) = {})
          => store' = store]_vars

(***************************************************************************)
(* Properties of the owner of an order                                     *)
(***************************************************************************)
\* The orders inserted since the start: every one but the seeded order.
CreatedOrders == RowIds(orders) \ {1}

\* C26: an order created through POST /api/orders has no owner, and never
\* gets one: it is in no user's getUserOrders and in no answer of the order
\* listing to a caller who is not an admin.
C26_CreatedOrdersUnowned ==
  /\ [](\A o \in CreatedOrders :
          /\ orders[o].userId = None
          /\ \A u \in DOMAIN users :
               \A k \in 1..Len(getUserOrders(<<u>>)) : getUserOrders(<<u>>)[k].id # o)
  /\ [](\A p \in Procs :
          (ListOrdersDone(p) /\ proc[p].user.role # "admin")
          => \A k \in 1..Len(proc[p].out) : proc[p].out[k].id \notin CreatedOrders)
  /\ [][\A p \in Procs :
          (Idle(p) /\ proc'[p] # proc[p] /\ proc'[p].op = "createOrder")
          => orders'[Len(orders')].userId = None]_vars

\* C26 witness: the registered customer has listed their orders after an
\* order was created, and got the seeded order alone.
C26_Witness ==
  \E p \in Procs :
    /\ ListOrdersDone(p)
    /\ proc[p].user.role # "admin"
    /\ Len(proc[p].out) = 1
    /\ CreatedOrders # {}

(***************************************************************************)
(* Properties of a user's role                                             *)
(***************************************************************************)
\* C27: no step changes the role of a user or removes a user, and every user
\* a step adds has role "user", whatever role the registration body carried:
\* the seeded admin stays the only admin.
C27_RoleNeverChanges ==
  /\ [](\A u \in DOMAIN users : users[u].role = "admin" <=> u = "u1")
  /\ [][/\ \A u \in DOMAIN users :
             u \in DOMAIN users' /\ users'[u].role = users[u].role
        /\ \A u \in DOMAIN users' \ DOMAIN users : users'[u].role = "user"]_vars

\* C27 witness: a registration whose body asked for role "admin" has been
\* answered 201, and the user it created has role "user"; the customer's
\* password has been changed meanwhile.
C27_Witness ==
  \E p \in Procs :
    /\ proc[p].pc = "done" /\ proc[p].op = "register" /\ proc[p].res = 201
    /\ "role" \in DOMAIN proc[p] /\ proc[p].role = "admin"
    /\ users[proc[p].user].role = "user"
    /\ users["u2"].password # "secret1"

(***************************************************************************)
(* Properties of stock against the items sold                              *)
(***************************************************************************)
\* The catalog as the first create-order call of the run found it.
IsFirstCall(p) == proc[p].pc # "idle" /\ proc[p].op = "createOrder"
                  /\ Len(proc[p].pre.orders) = 1

\* C28: whenever no create-order call is in progress, the stock a physical
\* product has lost since the start equals the sum of the quantities of the
\* order item rows that reference it, however many calls ran and however
\* their steps interleaved.
C28_StockConserved ==
  \A p \in Procs :
    (IsFirstCall(p) /\ \A q \in Procs : Idle(q))
    => \A id \in RowIds(proc[p].pre.products) :
         TracksStock(proc[p].pre.products[id])
         => Val(proc[p].pre.products[id].stock) - Val(products[id].stock)
              = Requested(orderItems, id)

(***************************************************************************)
(* Properties of the order of create-order's writes                        *)
(***************************************************************************)
\* The item rows of order o, in row order.
ItemSeqOf(o) ==
  LET ids == InRowOrder(ItemRowsOf(o)) IN [k \in 1..Len(ids) |-> orderItems[ids[k]]]

\* C29: in every state of a create-order call run on its own, with positive
\* quantities, each item row references an order that exists, and the stock
\* the call has taken from a product is no more than the quantities of the
\* item rows it has persisted for that product; the step that inserts an item
\* row finds its order already there, and the step that lowers a product's
\* stock finds the row of its line already there.
C29_WritesInOrder ==
  /\ [](/\ \A k \in RowIds(orderItems) : orderItems[k].orderId \in RowIds(orders)
        /\ \A p \in Procs :
             (proc[p].pc # "idle" /\ proc[p].op = "createOrder")
             => \A id \in RowIds(proc[p].pre.products) :
                  TracksStock(proc[p].pre.products[id])
                  => Val(proc[p].pre.products[id].stock) - Val(products[id].stock)
                       <= Requested(ItemSeqOf(proc[p].newOrder), id))
  /\ [][/\ Len(orderItems') > Len(orderItems)
           => orderItems'[Len(orderItems')].orderId \in RowIds(orders)
        /\ \A p \in Procs :
             (proc[p].pc = "updateStock" /\ proc'[p] # proc[p])
             => LET item == proc[p].items[proc[p].i]
                IN /\ Cardinality(ItemRowsOf(proc[p].newOrder)) = proc[p].i
                   /\ orderItems[Len(orderItems)] = OrderItemRow(proc[p].newOrder, item)
                   /\ \A id \in RowIds(products) \ {item.productId} :
                        products'[id] = products[id]]_vars

\* C29 witness: a call of two lines for the physical product is between the
\* insert of its second row and that row's stock update: two rows persisted,
\* the stock lowered for the first only.
C29_Witness ==
  \E p \in Procs :
    /\ proc[p].pc = "updateStock" /\ proc[p].op = "createOrder"
    /\ proc[p].i = 2
    /\ Cardinality(ItemRowsOf(proc[p].newOrder)) = 2
    /\ Val(proc[p].pre.products[1].stock) - Val(products[1].stock)
         = proc[p].items[1].quantity
    /\ proc[p].items[1].productId = 1 /\ proc[p].items[2].productId = 1

(***************************************************************************)
(* Properties of changing a password                                       *)
(***************************************************************************)
\* What a step that writes a password leaves: the user's password is the new
\* one and nobody else's row changed; login with the new password succeeds
\* and login with the old one, when it differs, fails.
PasswordReplaced(u, new) ==
  /\ users' = [users EXCEPT ![u].password = new]
  /\ loginStatus(users', users[u].email, new) = 200
  /\ users[u].password # new => loginStatus(users', users[u].email, users[u].password) = 401

\* C30: change-password sets the caller's password to the new one only when
\* the current password given equals the stored one; with another current
\* password, or a caller that resolves to no user, it is answered 400 or 401
\* and no password changes. After a change that went through, and after a
\* reset that went through, login succeeds with the new password and fails
\* with the old one; and login succeeds with the stored password only.
C30_ChangePassword ==
  [][\A p \in Procs :
       proc'[p] # proc[p]
       => /\ proc'[p].op = "changePassword"
             => LET r == proc'[p]
                    callers == CredentialOf(r.hdr)
                IN /\ (Idle(p) /\ r.pc # "done")
                      => /\ callers = {r.userId}
                         /\ users[r.userId].password = r.currentPassword
                         /\ users' = users
                   /\ (Idle(p) /\ (callers = {} \/ \A u \in callers :
                                                    users[u].password # r.currentPassword))
                      => r.pc = "done" /\ r.res \in {400, 401} /\ users' = users
                   /\ ~Idle(p)
                      => r.res = 200 /\ PasswordReplaced(r.userId, r.newPassword)
          /\ (proc'[p].op = "reset" /\ users' # users)
             => PasswordReplaced(proc'[p].userId, proc'[p].newPassword)
          /\ proc'[p].op = "login"
             => (proc'[p].res = 200
                 <=> \E u \in DOMAIN users : /\ users[u].email = proc'[p].email
                                              /\ users[u].password = proc'[p].password)]_vars

\* C30 witness: the customer's change from "secret1" to "newpass1" has been
\* answered 200 and the stored password is the new one.
C30_Witness ==
  \E p \in Procs :
    /\ proc[p].pc = "done" /\ proc[p].op = "changePassword" /\ proc[p].res = 200
    /\ proc[p].currentPassword = "secret1" /\ proc[p].newPassword = "newpass1"
    /\ users[proc[p].userId].password = "newpass1"

====
